---------------------------- MODULE Spec2Model ----------------------------
(***************************************************************************)
(* Model of src/index.js: the authoritative driving-simulation server.     *)
(*                                                                         *)
(* One Node.js process, one event loop: every socket handler and the       *)
(* setInterval callback runs to completion, so each is one action.         *)
(*                                                                         *)
(* Numbers.  JavaScript numbers that carry fractions (inputs, positions,   *)
(* velocities, quaternion components, spawn jitter) are kept in TENTHS:    *)
(* the integer n stands for n/10.  Forces computed from an input are       *)
(* therefore in tenths of a force unit, steering angles (input in tenths   *)
(* times MAX_STEER in tenths) in hundredths of a radian.  The result of    *)
(* Number() is a record that says whether it is NaN.                       *)
(***************************************************************************)
EXTENDS Integers, Sequences, FiniteSets, TLC

VARIABLES
    running,        \* the process is alive and the setInterval timer is armed
    conn,           \* per socket: "new" (never connected), "open", "closed"
    players,        \* the object `players`: socket id -> {vehicle, chassis, input}
    bodies,         \* heap of CANNON.Body objects created by createVehicle
    vehicles,       \* heap of CANNON.RaycastVehicle objects
    worldBodies,    \* dynamic bodies registered in world.bodies
    worldVehicles,  \* vehicles whose preStep listener is registered in world
    nextObj,        \* next fresh object identity
    spawnIdx,       \* the module-level counter of pickSpawn
    allocLog,       \* history: the spawn slots (1..25) pickSpawn has returned
    ev,             \* history: the last event handled and what it did
    buildings,      \* the array `buildings` sent with worldInit
    bid,            \* the counter behind the building ids
    worldStatic,    \* static bodies registered in world.bodies
    cityLoop        \* where the module body is in the city loop, or "done"

\* What the module body sets up and no handler writes.
cityVars == <<buildings, bid, worldStatic, cityLoop>>

vars == <<running, conn, players, bodies, vehicles, worldBodies,
          worldVehicles, nextObj, spawnIdx, allocLog, ev,
          buildings, bid, worldStatic, cityLoop>>

(***************************************************************************)
(* Bounds of the model                                                     *)
(***************************************************************************)
\* The sockets that may ever connect, in the order they do: socket.io gives
\* every connection a fresh id, so the first to connect may be called s1.
SocketOrder == <<"s1", "s2">>
Sockets == {SocketOrder[i] : i \in DOMAIN SocketOrder}
\* Calls of pickSpawn explored under Spec.
MaxAlloc == 3
\* Calls of pickSpawn explored under SpecSpawn (more than two full cycles
\* are not needed: one wrap-around and a second start are).
MaxSpawnRun == 30
\* Samples of the two draws (Math.random() - 0.5) * 2 of one pickSpawn call,
\* each a value of [-1, 1), in tenths.
Jitter == {<<-10, 9>>, <<0, 0>>}
\* Buildings the city loop is followed to place; once that many stand, the
\* candidates followed are the ones the loop skips.
MaxPlaced == 2

(***************************************************************************)
(* Program constants                                                       *)
(***************************************************************************)
GRID_SPACING == 36
ROAD_HALF == 7
TICK == 60
ENGINE_FORCE == 7200
REVERSE_FORCE == 3000
\* 0.5 rad, in tenths
MAX_STEER == 5
BRAKE_FORCE == 20
\* chassisBody.position.set(x, 1.8, z), in tenths
SPAWN_Y == 18
\* corr.scale(-12, corr)
UPRIGHT_GAIN == -12

Wheels == 0..3
Zero3 == <<0, 0, 0>>
\* quaternion.set(0, 0, 0, 1), in tenths
IdentityQ == <<0, 0, 0, 10>>

(***************************************************************************)
(* Intersection spawn points (lines 71-76): gx outer, gz inner, both       *)
(* -2..2, pushed in that order.  spawns[k] is the JavaScript spawns[k-1];  *)
(* coordinates in tenths.                                                  *)
(***************************************************************************)
SpawnAxis == <<-2, -1, 0, 1, 2>>

spawns ==
    [k \in 1..(Len(SpawnAxis) * Len(SpawnAxis)) |->
        <<SpawnAxis[((k - 1) \div Len(SpawnAxis)) + 1] * GRID_SPACING * 10,
          SpawnAxis[((k - 1) % Len(SpawnAxis)) + 1] * GRID_SPACING * 10>>]

\* Mutant of SpawnSlot: the modulus is one short of the list.
SpawnSlotShort(idx) == (idx % (Len(spawns) - 1)) + 1

\* The slot pickSpawn reads for a given value of the counter:
\* spawns[idx % spawns.length], as a 1-based index.
SpawnSlot(idx) == (idx % Len(spawns)) + 1

\* Mutant of pickSpawn: the counter is read but not advanced.
pickSpawnNoAdvance(idx, jx, jz) ==
    [x    |-> spawns[SpawnSlot(idx)][1] + jx,
     z    |-> spawns[SpawnSlot(idx)][2] + jz,
     slot |-> SpawnSlot(idx),
     idx  |-> idx]

\* pickSpawn (lines 78-82) with the two Math.random() draws given.
\* Returns the point, the slot read and the counter after spawnIdx++.
pickSpawn(idx, jx, jz) ==
    [x    |-> spawns[SpawnSlot(idx)][1] + jx,
     z    |-> spawns[SpawnSlot(idx)][2] + jz,
     slot |-> SpawnSlot(idx),
     idx  |-> idx + 1]

(***************************************************************************)
(* City layout (lines 40-68).  Math.random() is a draw r in 0..999, for    *)
(* r/1000; sizes and coordinates are in tenths.                            *)
(***************************************************************************)
\* for (let gx = -3; gx <= 3; gx++), for (let gz = -3; gz <= 3; gz++)
CityAxis == -3..3

\* Samples of Math.random() for line 57: 2, 3 and 4 candidates.
CountDraws == {0, 500, 999}

\* Samples of the five draws of one candidate, <<w, d, h, px, pz>>: one in
\* the middle of its block, one off the x axis of the block only, one off
\* both axes.
CandidateDraws == {<<0, 0, 0, 500, 500>>, <<0, 0, 0, 0, 500>>, <<500, 500, 500, 0, 875>>}

\* Line 57: 2 + Math.floor(Math.random() * 3)
CandidateCount(r) == 2 + ((r * 3) \div 1000)

\* Lines 59-63: the size and the centre of a candidate of the block at
\* (gx, gz), from its five draws.
Candidate(gx, gz, r) ==
    [w  |-> 100 + ((r[1] * 140) \div 1000),
     d  |-> 80 + ((r[2] * 160) \div 1000),
     h  |-> 120 + ((r[3] * 600) \div 1000),
     cx |-> gx * GRID_SPACING * 10,
     cz |-> gz * GRID_SPACING * 10,
     px |-> gx * GRID_SPACING * 10 + (((r[4] - 500) * (GRID_SPACING * 6)) \div 1000),
     pz |-> gz * GRID_SPACING * 10 + (((r[5] - 500) * (GRID_SPACING * 6)) \div 1000)]

MathAbs(n) == IF n < 0 THEN -n ELSE n

\* Line 64: the candidate is skipped when its centre is within ROAD_HALF of
\* an axis of its block.
Skipped(c) ==
    \/ MathAbs(c.px - c.cx) < ROAD_HALF * 10
    \/ MathAbs(c.pz - c.cz) < ROAD_HALF * 10

\* The city built so far.
City == [buildings |-> buildings, bid |-> bid, worldStatic |-> worldStatic]

\* addBuildingCollider(x, z, w, d, h), lines 43-50: a static box in the
\* world, and its entry in `buildings`; the id is "b" followed by n.
addBuildingCollider(city, x, z, w, d, h) ==
    [buildings   |-> Append(city.buildings,
                            [id |-> <<"b", city.bid>>, x |-> x, y |-> h \div 2, z |-> z,
                             w |-> w, h |-> h, d |-> d]),
     bid         |-> city.bid + 1,
     worldStatic |-> city.worldStatic \cup {<<"b", city.bid>>}]

\* Lines 24-41: the world holds the ground plane, no building yet.
EmptyCity == [buildings |-> <<>>, bid |-> 1, worldStatic |-> {<<"ground", 0>>}]

\* One outcome of the city loop: a single candidate passed line 64.
SampleCity ==
    LET c == Candidate(-3, -3, <<500, 500, 500, 0, 875>>)
    IN  addBuildingCollider(EmptyCity, c.px, c.pz, c.w, c.d, c.h)

(***************************************************************************)
(* Values a client can send (JSON values), tagged by their JavaScript      *)
(* type.  Undef is `undefined`: an absent payload or an absent property.   *)
(***************************************************************************)
Undef == [t |-> "undefined"]
Null == [t |-> "null"]
Num(n) == [t |-> "number", v |-> n]
Str(s) == [t |-> "string", v |-> s]
Bool(b) == [t |-> "boolean", v |-> b]
Obj(f, tn, b) == [t |-> "object", forward |-> f, turn |-> tn, brake |-> b]
EmptyObj == [t |-> "object"]

\* A JavaScript number: NaN, or the value v in tenths.
NaN == [nan |-> TRUE, v |-> 0]
Finite(n) == [nan |-> FALSE, v |-> n]

\* Number(v): ECMAScript ToNumber on the values above (strings: the ones
\* the model sends).  JSON carries no NaN, so a sent number is finite.
ToNumber(v) ==
    CASE v.t = "number" -> Finite(v.v)
      [] v.t = "boolean" -> IF v.v THEN Finite(10) ELSE Finite(0)
      [] v.t = "null" -> Finite(0)
      [] v.t = "string" ->
            (CASE v.v = "" -> Finite(0)
               [] v.v = "5" -> Finite(50)
               [] v.v = "0.5" -> Finite(5)
               [] OTHER -> NaN)
      [] OTHER -> NaN

\* !!v: ECMAScript ToBoolean.
ToBoolean(v) ==
    CASE v.t = "number" -> v.v # 0
      [] v.t = "boolean" -> v.v
      [] v.t = "string" -> v.v # ""
      [] v.t = "object" -> TRUE
      [] OTHER -> FALSE

\* x || 0 on a number: NaN and 0 are falsy.  The result, in tenths.
OrZero(x) == IF x.nan \/ x.v = 0 THEN 0 ELSE x.v

MathMin(a, b) == IF a < b THEN a ELSE b
MathMax(a, b) == IF a > b THEN a ELSE b

\* Math.max(-1, Math.min(1, Number(raw) || 0)), lines 155-156, in tenths.
ClampUnit(raw) == MathMax(-10, MathMin(10, OrZero(ToNumber(raw))))

\* data.<field>: a property read.  Reading a property of undefined or null
\* throws a TypeError; of a primitive or of an object without the property
\* it yields undefined.
Throws(data) == data.t \in {"undefined", "null"}

GetProp(data, field) ==
    IF data.t = "object" /\ field \in DOMAIN data THEN data[field] ELSE Undef

\* The body of the input handler after its guard (lines 155-157).
SanitizeInput(data) ==
    [forward |-> ClampUnit(GetProp(data, "forward")),
     turn    |-> ClampUnit(GetProp(data, "turn")),
     brake   |-> ToBoolean(GetProp(data, "brake"))]

\* The payloads the model sends with an `input` event.
Payloads ==
    { Undef,
      Null,
      EmptyObj,
      Obj(Num(10), Num(0), Bool(FALSE)),
      Obj(Num(50), Str("abc"), Bool(FALSE)),
      Obj(Num(-5), Num(-30), Num(10)),
      Obj(Bool(TRUE), Null, Str("")) }

(***************************************************************************)
(* The physics engine (cannon), as far as index.js uses it.  The engine    *)
(* is a dependency, not code of this repository: what a call does to the   *)
(* objects index.js holds is modelled, the dynamics are a choice among     *)
(* sample outcomes.                                                        *)
(***************************************************************************)
\* world.addBody(body): world.bodies holds a body once.
WorldAddBody(wb, b) == wb \cup {b}
\* world.removeBody(body): a body that is not in the world is left alone.
WorldRemoveBody(wb, b) == wb \ {b}

\* new CANNON.Body({ mass: 380 }) placed at (x, 1.8, z), lines 90-93.
NewChassis(x, z) ==
    [position        |-> <<x, SPAWN_Y, z>>,
     velocity        |-> Zero3,
     angularVelocity |-> Zero3,
     quaternion      |-> IdentityQ,
     torque          |-> Zero3]

\* new CANNON.RaycastVehicle({chassisBody, ...}) with its four wheels
\* (lines 97-126): wheels 0, 1 front, wheels 2, 3 rear; every wheel starts
\* with engine force, brake and steering 0.
NewVehicle(b) ==
    [chassisBody |-> b,
     engineForce |-> [i \in Wheels |-> 0],
     brake       |-> [i \in Wheels |-> 0],
     steering    |-> [i \in Wheels |-> 0]]

\* The part of the heap and of the world the handlers work on.
Store == [bodies |-> bodies, vehicles |-> vehicles, worldBodies |-> worldBodies,
          worldVehicles |-> worldVehicles, nextObj |-> nextObj]

\* createVehicle(x, z), lines 87-131: the chassis is added to the world
\* (line 94), the vehicle adds its chassis again and its preStep listener
\* (line 128).  Returns the store and the two references.
createVehicle(st, x, z) ==
    LET b == st.nextObj
        v == st.nextObj + 1
    IN  [bodies        |-> (b :> NewChassis(x, z)) @@ st.bodies,
         vehicles      |-> (v :> NewVehicle(b)) @@ st.vehicles,
         worldBodies   |-> WorldAddBody(WorldAddBody(st.worldBodies, b), b),
         worldVehicles |-> st.worldVehicles \cup {v},
         nextObj       |-> st.nextObj + 2,
         vehicle       |-> v,
         chassisBody   |-> b]

\* Mutant of RemoveFromWorld: only the preStep listener is taken out, the
\* chassis stays in world.bodies.
RemoveFromWorldLeak(st, p) ==
    [st EXCEPT !.worldVehicles = @ \ {p.vehicle}]

\* Lines 173-174: vehicle.removeFromWorld(world) takes the chassis and the
\* listener out, world.removeBody(chassis) takes the chassis out (again).
RemoveFromWorld(st, p) ==
    [st EXCEPT
        !.worldVehicles = @ \ {p.vehicle},
        !.worldBodies = WorldRemoveBody(
                            WorldRemoveBody(@, st.vehicles[p.vehicle].chassisBody),
                            p.chassis)]

\* Mutant of Delete: the session record is kept.
DeleteNothing(f, id) == f

\* delete players[id], line 175
Delete(f, id) == [k \in DOMAIN f \ {id} |-> f[k]]

\* Garbage collection: an object that neither a session record nor the
\* world refers to is gone.
LiveVehicles(pl, wv) == {pl[id].vehicle : id \in DOMAIN pl} \cup wv

LiveBodies(pl, wb, wv, heapV) ==
    {pl[id].chassis : id \in DOMAIN pl} \cup wb
        \cup {heapV[v].chassisBody : v \in LiveVehicles(pl, wv)}

Restrict(f, keep) == [k \in DOMAIN f \cap keep |-> f[k]]

(***************************************************************************)
(* Vector helpers of the engine, on tenths.                                *)
(***************************************************************************)
\* CANNON.Quaternion.vmult: v rotated by the unit quaternion q.
Vmult(q, v) ==
    LET ix ==  q[4] * v[1] + q[2] * v[3] - q[3] * v[2]
        iy ==  q[4] * v[2] + q[3] * v[1] - q[1] * v[3]
        iz ==  q[4] * v[3] + q[1] * v[2] - q[2] * v[1]
        iw == -q[1] * v[1] - q[2] * v[2] - q[3] * v[3]
    IN  << (ix * q[4] + iw * (-q[1]) + iy * (-q[3]) - iz * (-q[2])) \div 100,
           (iy * q[4] + iw * (-q[2]) + iz * (-q[1]) - ix * (-q[3])) \div 100,
           (iz * q[4] + iw * (-q[3]) + ix * (-q[2]) - iy * (-q[1])) \div 100 >>

\* a.cross(b)
Cross(a, b) ==
    << (a[2] * b[3] - a[3] * b[2]) \div 10,
       (a[3] * b[1] - a[1] * b[3]) \div 10,
       (a[1] * b[2] - a[2] * b[1]) \div 10 >>

Scale(k, a) == <<k * a[1], k * a[2], k * a[3]>>
Vadd(a, b) == <<a[1] + b[1], a[2] + b[2], a[3] + b[3]>>

(***************************************************************************)
(* The tick (lines 187-237), in its three parts.  Each part works on a     *)
(* context {vehicles, bodies, trace, sent} and appends what it did to the  *)
(* trace, so that the order and the number of the parts can be read off.   *)
(***************************************************************************)
\* Mutant of ApplyInput: the wheels keep what an earlier tick set.
ApplyInputStale(veh, input) == veh

\* Mutant of ApplyInput: the brake and the engine force of the tick before
\* are not cleared first.
ApplyInputNoClear(veh, input) ==
    LET driven ==
            IF input.forward > 0
            THEN LET f == (-ENGINE_FORCE) * input.forward
                 IN  [veh EXCEPT !.engineForce[2] = f, !.engineForce[3] = f]
            ELSE IF input.forward < 0
            THEN LET f == REVERSE_FORCE * (-input.forward)
                 IN  [veh EXCEPT !.engineForce[2] = f, !.engineForce[3] = f]
            ELSE veh
        steer == input.turn * MAX_STEER
        steered == [driven EXCEPT !.steering[0] = steer, !.steering[1] = steer]
    IN  IF input.brake
        THEN [steered EXCEPT !.brake = [i \in Wheels |-> BRAKE_FORCE]]
        ELSE steered

\* Lines 192-214 for one vehicle: clear, throttle on the rear wheels 2 and
\* 3, steering on the front wheels 0 and 1, brake on all four.
ApplyInput(veh, input) ==
    LET cleared == [veh EXCEPT !.brake = [i \in Wheels |-> 0],
                               !.engineForce = [i \in Wheels |-> 0]]
        driven ==
            IF input.forward > 0
            THEN LET f == (-ENGINE_FORCE) * input.forward
                 IN  [cleared EXCEPT !.engineForce[2] = f, !.engineForce[3] = f]
            ELSE IF input.forward < 0
            THEN LET f == REVERSE_FORCE * (-input.forward)
                 IN  [cleared EXCEPT !.engineForce[2] = f, !.engineForce[3] = f]
            ELSE cleared
        steer == input.turn * MAX_STEER
        steered == [driven EXCEPT !.steering[0] = steer, !.steering[1] = steer]
    IN  IF input.brake
        THEN [steered EXCEPT !.brake = [i \in Wheels |-> BRAKE_FORCE]]
        ELSE steered

\* Lines 217-222: the upright stabilizer adds -12 * (curUp x up) to the
\* chassis torque.
UprightTorque(body) ==
    LET up == <<0, 10, 0>>
        curUp == Vmult(body.quaternion, <<0, 10, 0>>)
    IN  Scale(UPRIGHT_GAIN, Cross(curUp, up))

Stabilize(body) == [body EXCEPT !.torque = Vadd(UprightTorque(body), @)]

\* The sessions whose record refers to a given vehicle / chassis.
DriversOf(v) == {id \in DOMAIN players : players[id].vehicle = v}
OwnersOf(b) == {id \in DOMAIN players : players[id].chassis = b}

\* Lines 189-223: for (const id in players) { ... }.  The input applied to
\* a session's vehicle is the one its record holds when the tick runs.
ApplyInputs(ctx) ==
    [ctx EXCEPT
        !.vehicles = [v \in DOMAIN ctx.vehicles |->
                        IF DriversOf(v) = {} THEN ctx.vehicles[v]
                        ELSE ApplyInput(ctx.vehicles[v],
                                        players[CHOOSE id \in DriversOf(v) : TRUE].input)],
        !.bodies = [b \in DOMAIN ctx.bodies |->
                        IF OwnersOf(b) = {} THEN ctx.bodies[b]
                        ELSE Stabilize(ctx.bodies[b])],
        !.trace = Append(@, [op |-> "apply", ids |-> DOMAIN players])]

\* What one world step may leave of a body: sample results of the engine's
\* integration.  "rest": in place, not moving; "tumble": displaced, moving,
\* turning and tilted.
Motions == {"rest", "tumble"}

\* (1/2, 1/2, 1/2, 1/2): the unit quaternion that turns the y axis into z.
TiltedQ == <<5, 5, 5, 5>>

Moved(body, m) ==
    CASE m = "rest" ->
            [body EXCEPT !.velocity = Zero3, !.angularVelocity = Zero3]
      [] m = "tumble" ->
            [body EXCEPT !.position = <<-130, 12, 40>>,
                         !.velocity = <<30, -10, 0>>,
                         !.angularVelocity = <<0, 0, 20>>,
                         !.quaternion = TiltedQ]

\* world.step(dt), line 225: every body in the world is integrated once
\* and its accumulated torque is consumed (the engine clears forces at the
\* end of a step).
WorldStep(ctx, dt, outcome) ==
    [ctx EXCEPT
        !.bodies = [b \in DOMAIN ctx.bodies |->
                        IF b \in worldBodies
                        THEN [Moved(ctx.bodies[b], outcome[b]) EXCEPT !.torque = Zero3]
                        ELSE ctx.bodies[b]],
        !.trace = Append(@, [op |-> "step", dt |-> dt,
                             torque |-> [b \in worldBodies |-> ctx.bodies[b].torque]])]

\* Mutant of Snapshot: only the sessions whose chassis moves get an entry.
SnapshotOfMoving(ctx) ==
    [id \in {k \in DOMAIN players : ctx.bodies[players[k].chassis].velocity # Zero3} |->
        [position   |-> ctx.bodies[players[id].chassis].position,
         quaternion |-> ctx.bodies[players[id].chassis].quaternion]]

\* Lines 228-235: the snapshot, one entry per key of players.
Snapshot(ctx) ==
    [id \in DOMAIN players |->
        [position   |-> ctx.bodies[players[id].chassis].position,
         quaternion |-> ctx.bodies[players[id].chassis].quaternion]]

\* Line 236: io.emit("state", state), one event to every connected socket.
Broadcast(ctx) ==
    [ctx EXCEPT
        !.sent = Append(@, [to |-> "all", event |-> "state", data |-> Snapshot(ctx)]),
        !.trace = Append(@, [op |-> "emit"])]

\* Mutant of TickBody: a second world step catches up on a late tick.
TickBodyCatchUp(outcome) ==
    Broadcast(
        WorldStep(
            WorldStep(
                ApplyInputs([vehicles |-> vehicles, bodies |-> bodies,
                             trace |-> <<>>, sent |-> <<>>]),
                <<1, TICK>>, outcome),
            <<1, TICK>>, outcome))

\* The callback of setInterval, lines 187-237.  dt = 1 / TICK is kept as
\* the pair <<1, TICK>>.
TickBody(outcome) ==
    Broadcast(
        WorldStep(
            ApplyInputs([vehicles |-> vehicles, bodies |-> bodies,
                         trace |-> <<>>, sent |-> <<>>]),
            <<1, TICK>>, outcome))

(***************************************************************************)
(* The last event, for the properties: its type, the socket, the payload,  *)
(* whether the socket had a session (known), whether the handler threw,    *)
(* the events it emitted, the trace of a tick, and the chassis a reset     *)
(* found.                                                                  *)
(***************************************************************************)
NoChassis == [velocity |-> Zero3, angularVelocity |-> Zero3, quaternion |-> IdentityQ]

Event(type, id, known) ==
    [type |-> type, id |-> id, data |-> Undef, known |-> known, threw |-> FALSE,
     sent |-> <<>>, trace |-> <<>>, pre |-> NoChassis]

(***************************************************************************)
(* State after the module body of index.js has run: no session, only the   *)
(* static colliders in the world, the counter at 0, the timer armed (line  *)
(* 187).  The city is one outcome of the city loop; InitCity below starts  *)
(* before the loop and follows it.                                         *)
(***************************************************************************)
Init ==
    /\ running = TRUE
    /\ conn = [id \in Sockets |-> "new"]
    /\ players = <<>>
    /\ bodies = <<>>
    /\ vehicles = <<>>
    /\ worldBodies = {}
    /\ worldVehicles = {}
    /\ nextObj = 1
    /\ spawnIdx = 0
    /\ allocLog = <<>>
    /\ ev = Event("init", "", FALSE)
    /\ buildings = SampleCity.buildings
    /\ bid = SampleCity.bid
    /\ worldStatic = SampleCity.worldStatic
    /\ cityLoop = [phase |-> "done"]

\* Where createVehicle may be left by an exception of the engine: at line
\* 94 (world.addBody rejects the chassis: nothing is registered) or in
\* lines 97-128 (the vehicle, a wheel or addToWorld is rejected: the chassis
\* of line 94 is registered).
FailPoints == {"addBody", "vehicle"}

\* createVehicle(x, z) left by an exception at the given point: the store
\* it leaves behind.
createVehicleThrows(st, x, z, at) ==
    IF at = "vehicle"
    THEN [st EXCEPT !.bodies = (st.nextObj :> NewChassis(x, z)) @@ @,
                    !.worldBodies = WorldAddBody(@, st.nextObj),
                    !.nextObj = @ + 1]
    ELSE st

\* io.on("connection"), lines 134-136, when createVehicle throws: the spawn
\* point is taken (line 135), lines 137-148 are not reached, and the
\* exception, caught by nobody, ends the process.
ConnectFails(id, jx, jz, at) ==
    /\ running
    /\ conn[id] = "new"
    /\ LET s == pickSpawn(spawnIdx, jx, jz)
           cv == createVehicleThrows(Store, s.x, s.z, at)
       IN  /\ spawnIdx' = s.idx
           /\ allocLog' = Append(allocLog, s.slot)
           /\ bodies' = cv.bodies
           /\ worldBodies' = cv.worldBodies
           /\ nextObj' = cv.nextObj
    /\ ev' = [Event("connect", id, FALSE) EXCEPT !.threw = TRUE]
    /\ conn' = [conn EXCEPT ![id] = "open"]
    /\ running' = FALSE
    /\ UNCHANGED <<players, vehicles, worldVehicles, cityVars>>

\* Mutant of EmitWorldInit: io.emit in the place of socket.emit.
EmitWorldInitToAll(id) ==
    <<[to |-> "all", event |-> "worldInit",
       data |-> [id |-> id,
                 grid |-> [spacing |-> GRID_SPACING, roadHalf |-> ROAD_HALF],
                 buildings |-> buildings]]>>

\* Lines 144-148: socket.emit("worldInit", {id, grid, buildings}), the
\* events the connection handler sends.
EmitWorldInit(id) ==
    <<[to |-> id, event |-> "worldInit",
       data |-> [id |-> id,
                 grid |-> [spacing |-> GRID_SPACING, roadHalf |-> ROAD_HALF],
                 buildings |-> buildings]]>>

\* io.on("connection"), lines 134-148, for a socket with a fresh id; jx and
\* jz are the two Math.random() draws of pickSpawn.
Connect(id, jx, jz) ==
    /\ running
    /\ conn[id] = "new"
    /\ LET s == pickSpawn(spawnIdx, jx, jz)
           cv == createVehicle(Store, s.x, s.z)
       IN  /\ spawnIdx' = s.idx
           /\ allocLog' = Append(allocLog, s.slot)
           /\ bodies' = cv.bodies
           /\ vehicles' = cv.vehicles
           /\ worldBodies' = cv.worldBodies
           /\ worldVehicles' = cv.worldVehicles
           /\ nextObj' = cv.nextObj
           /\ players' = (id :> [vehicle |-> cv.vehicle,
                                 chassis |-> cv.chassisBody,
                                 input   |-> [forward |-> 0, turn |-> 0, brake |-> FALSE]])
                         @@ players
           /\ ev' = [Event("connect", id, TRUE) EXCEPT !.sent = EmitWorldInit(id)]
    /\ conn' = [conn EXCEPT ![id] = "open"]
    /\ UNCHANGED <<running, cityVars>>

\* Mutant of Input: the sessions share one input object (the default of
\* line 140 handed to every record), so a write reaches them all.
InputShared(id, data) ==
    /\ running
    /\ conn[id] # "new"
    /\ IF id \notin DOMAIN players
       THEN /\ ev' = [Event("input", id, FALSE) EXCEPT !.data = data]
            /\ UNCHANGED <<running, players>>
       ELSE IF Throws(data)
       THEN /\ running' = FALSE
            /\ ev' = [Event("input", id, TRUE) EXCEPT !.data = data, !.threw = TRUE]
            /\ UNCHANGED players
       ELSE /\ players' = [k \in DOMAIN players |->
                              [players[k] EXCEPT !.input = SanitizeInput(data)]]
            /\ ev' = [Event("input", id, TRUE) EXCEPT !.data = data]
            /\ UNCHANGED running
    /\ UNCHANGED <<conn, bodies, vehicles, worldBodies, worldVehicles, nextObj,
                   spawnIdx, allocLog, cityVars>>

\* socket.on("input"), lines 150-158.  The handlers of a socket exist from
\* its connection on.  A TypeError thrown by the handler is caught by
\* nobody: the process ends.
Input(id, data) ==
    /\ running
    /\ conn[id] # "new"
    /\ IF id \notin DOMAIN players
       THEN /\ ev' = [Event("input", id, FALSE) EXCEPT !.data = data]
            /\ UNCHANGED <<running, players>>
       ELSE IF Throws(data)
       THEN /\ running' = FALSE
            /\ ev' = [Event("input", id, TRUE) EXCEPT !.data = data, !.threw = TRUE]
            /\ UNCHANGED players
       ELSE /\ players' = [players EXCEPT ![id].input = SanitizeInput(data)]
            /\ ev' = [Event("input", id, TRUE) EXCEPT !.data = data]
            /\ UNCHANGED running
    /\ UNCHANGED <<conn, bodies, vehicles, worldBodies, worldVehicles, nextObj,
                   spawnIdx, allocLog, cityVars>>

\* Mutant of ResetChassis: the angular velocity is not cleared.
ResetChassisKeepsSpin(body, ns) ==
    [body EXCEPT !.position = <<ns.x, SPAWN_Y, ns.z>>,
                 !.velocity = Zero3,
                 !.quaternion = IdentityQ]

\* Lines 164-167: the chassis is put at the new point, at rest, upright.
ResetChassis(body, ns) ==
    [body EXCEPT !.position = <<ns.x, SPAWN_Y, ns.z>>,
                 !.velocity = Zero3,
                 !.angularVelocity = Zero3,
                 !.quaternion = IdentityQ]

\* Mutant of Reset: pickSpawn is called before the guard.
ResetAllocFirst(id, jx, jz) ==
    /\ running
    /\ conn[id] # "new"
    /\ LET ns == pickSpawn(spawnIdx, jx, jz)
       IN  /\ spawnIdx' = ns.idx
           /\ allocLog' = Append(allocLog, ns.slot)
           /\ IF id \notin DOMAIN players
              THEN /\ ev' = Event("reset", id, FALSE)
                   /\ UNCHANGED bodies
              ELSE /\ bodies' = [bodies EXCEPT ![players[id].chassis] = ResetChassis(@, ns)]
                   /\ ev' = Event("reset", id, TRUE)
    /\ UNCHANGED <<running, conn, players, vehicles, worldBodies, worldVehicles,
                   nextObj, cityVars>>

\* Mutant of Reset: the reset also releases the controls (the stored input
\* goes back to the one of line 140).
ResetClearsInput(id, jx, jz) ==
    /\ running
    /\ conn[id] # "new"
    /\ IF id \notin DOMAIN players
       THEN /\ ev' = Event("reset", id, FALSE)
            /\ UNCHANGED <<bodies, spawnIdx, allocLog, players>>
       ELSE LET ns == pickSpawn(spawnIdx, jx, jz)
                c == players[id].chassis
            IN  /\ spawnIdx' = ns.idx
                /\ allocLog' = Append(allocLog, ns.slot)
                /\ bodies' = [bodies EXCEPT ![c] = ResetChassis(@, ns)]
                /\ players' = [players EXCEPT ![id].input =
                                    [forward |-> 0, turn |-> 0, brake |-> FALSE]]
                /\ ev' = [Event("reset", id, TRUE) EXCEPT
                            !.pre = [velocity |-> bodies[c].velocity,
                                     angularVelocity |-> bodies[c].angularVelocity,
                                     quaternion |-> bodies[c].quaternion]]
    /\ UNCHANGED <<running, conn, vehicles, worldBodies, worldVehicles,
                   nextObj, cityVars>>

\* socket.on("reset"), lines 160-168.
Reset(id, jx, jz) ==
    /\ running
    /\ conn[id] # "new"
    /\ IF id \notin DOMAIN players
       THEN /\ ev' = Event("reset", id, FALSE)
            /\ UNCHANGED <<bodies, spawnIdx, allocLog>>
       ELSE LET ns == pickSpawn(spawnIdx, jx, jz)
                c == players[id].chassis
            IN  /\ spawnIdx' = ns.idx
                /\ allocLog' = Append(allocLog, ns.slot)
                /\ bodies' = [bodies EXCEPT ![c] = ResetChassis(@, ns)]
                /\ ev' = [Event("reset", id, TRUE) EXCEPT
                            !.pre = [velocity |-> bodies[c].velocity,
                                     angularVelocity |-> bodies[c].angularVelocity,
                                     quaternion |-> bodies[c].quaternion]]
    /\ UNCHANGED <<running, conn, players, vehicles, worldBodies, worldVehicles,
                   nextObj, cityVars>>

\* socket.on("disconnect"), lines 170-177.
Disconnect(id) ==
    /\ running
    /\ conn[id] # "new"
    /\ IF id \in DOMAIN players
       THEN LET st == RemoveFromWorld(Store, players[id])
                pl == Delete(players, id)
            IN  /\ worldBodies' = st.worldBodies
                /\ worldVehicles' = st.worldVehicles
                /\ players' = pl
                /\ bodies' = Restrict(bodies, LiveBodies(pl, st.worldBodies,
                                                         st.worldVehicles, vehicles))
                /\ vehicles' = Restrict(vehicles, LiveVehicles(pl, st.worldVehicles))
                /\ ev' = Event("disconnect", id, TRUE)
       ELSE /\ ev' = Event("disconnect", id, FALSE)
            /\ UNCHANGED <<players, bodies, vehicles, worldBodies, worldVehicles>>
    /\ conn' = [conn EXCEPT ![id] = "closed"]
    /\ UNCHANGED <<running, nextObj, spawnIdx, allocLog, cityVars>>

\* Mutant of Tick: the callback yields between the world step and the
\* snapshot (an await in it), and a disconnect is handled meanwhile.
TickYields(outcome) ==
    /\ running
    /\ \E gone \in DOMAIN players :
          LET r == TickBody(outcome)
              st == RemoveFromWorld(Store, players[gone])
          IN  /\ vehicles' = r.vehicles
              /\ bodies' = r.bodies
              /\ players' = Delete(players, gone)
              /\ worldBodies' = st.worldBodies
              /\ worldVehicles' = st.worldVehicles
              /\ ev' = [Event("tick", "", FALSE) EXCEPT !.sent = r.sent, !.trace = r.trace]
    /\ UNCHANGED <<running, conn, nextObj, spawnIdx, allocLog, cityVars>>

\* The setInterval callback, lines 187-237; outcome is what the engine's
\* step makes of each body in the world.
Tick(outcome) ==
    /\ running
    /\ LET r == TickBody(outcome)
       IN  /\ vehicles' = r.vehicles
           /\ bodies' = r.bodies
           /\ ev' = [Event("tick", "", FALSE) EXCEPT !.sent = r.sent, !.trace = r.trace]
    /\ UNCHANGED <<running, conn, players, worldBodies, worldVehicles, nextObj,
                   spawnIdx, allocLog, cityVars>>

\* The socket that connects next: the first of SocketOrder that never did.
IsNextSocket(id) ==
    \E i \in DOMAIN SocketOrder :
        /\ SocketOrder[i] = id
        /\ \A j \in 1..(i - 1) : conn[SocketOrder[j]] # "new"

\* A handler that allocates a spawn point is explored while the counter is
\* below the cap.
Next ==
    \/ \E id \in Sockets, j \in Jitter :
            spawnIdx < MaxAlloc /\ IsNextSocket(id) /\ Connect(id, j[1], j[2])
    \/ \E id \in Sockets, data \in Payloads : Input(id, data)
    \/ \E id \in Sockets, j \in Jitter :
            (id \in DOMAIN players => spawnIdx < MaxAlloc) /\ Reset(id, j[1], j[2])
    \/ \E id \in Sockets : Disconnect(id)
    \/ \E outcome \in [worldBodies -> Motions] : Tick(outcome)

Spec == Init /\ [][Next]_vars

\* The allocator's callers alone, over a longer run of allocations.
NextSpawn ==
    \/ \E id \in Sockets, j \in Jitter :
            spawnIdx < MaxSpawnRun /\ IsNextSocket(id) /\ Connect(id, j[1], j[2])
    \/ \E id \in Sockets, j \in Jitter :
            (id \in DOMAIN players => spawnIdx < MaxSpawnRun) /\ Reset(id, j[1], j[2])
    \/ \E id \in Sockets : Disconnect(id)

SpecSpawn == Init /\ [][NextSpawn]_vars

\* The server with an engine that may reject a vehicle.
NextFail ==
    \/ Next
    \/ \E id \in Sockets, j \in Jitter, at \in FailPoints :
            spawnIdx < MaxAlloc /\ IsNextSocket(id) /\ ConnectFails(id, j[1], j[2], at)

SpecFail == Init /\ [][NextFail]_vars

(***************************************************************************)
(* The module body from the city loop on (lines 40-68, then the rest), a   *)
(* step for every block entered and every candidate drawn.  cityLoop holds *)
(* the loop variables gx, gz, i and count.                                 *)
(***************************************************************************)
NoSession ==
    /\ conn = [id \in Sockets |-> "new"]
    /\ players = <<>>
    /\ bodies = <<>>
    /\ vehicles = <<>>
    /\ worldBodies = {}
    /\ worldVehicles = {}
    /\ nextObj = 1
    /\ spawnIdx = 0
    /\ allocLog = <<>>
    /\ ev = Event("init", "", FALSE)

\* Before line 53: the world holds the ground, `buildings` is empty, no
\* timer is armed yet and nothing listens.
InitCity ==
    /\ running = FALSE
    /\ NoSession
    /\ buildings = EmptyCity.buildings
    /\ bid = EmptyCity.bid
    /\ worldStatic = EmptyCity.worldStatic
    /\ cityLoop = [phase |-> "block", gx |-> -3, gz |-> -3]

serverVars == <<running, conn, players, bodies, vehicles, worldBodies,
                worldVehicles, nextObj, spawnIdx, allocLog, ev>>

\* Lines 55-57: a block is entered and its number of candidates drawn.
CityBlock(r) ==
    /\ cityLoop.phase = "block"
    /\ cityLoop.gx \in CityAxis
    /\ cityLoop' = [phase |-> "candidate", gx |-> cityLoop.gx, gz |-> cityLoop.gz,
                    i |-> 0, count |-> CandidateCount(r)]
    /\ UNCHANGED <<serverVars, buildings, bid, worldStatic>>

\* The loop variables after i++ and, past the last candidate, after the
\* gz++ and gx++ of the enclosing loops.
AfterCandidate(l) ==
    IF l.i + 1 < l.count
    THEN [l EXCEPT !.i = @ + 1]
    ELSE IF l.gz + 1 \in CityAxis
    THEN [phase |-> "block", gx |-> l.gx, gz |-> l.gz + 1]
    ELSE [phase |-> "block", gx |-> l.gx + 1, gz |-> -3]

\* Lines 58-66, one iteration: the candidate is drawn, skipped (line 64) or
\* placed (line 65).
CityCandidate(r) ==
    /\ cityLoop.phase = "candidate"
    /\ LET c == Candidate(cityLoop.gx, cityLoop.gz, r)
           placed == addBuildingCollider(City, c.px, c.pz, c.w, c.d, c.h)
       IN  IF Skipped(c)
           THEN UNCHANGED <<buildings, bid, worldStatic>>
           ELSE /\ buildings' = placed.buildings
                /\ bid' = placed.bid
                /\ worldStatic' = placed.worldStatic
    /\ cityLoop' = AfterCandidate(cityLoop)
    /\ UNCHANGED serverVars

\* The rest of the module body once the loop has ended (gx = 4): the spawn
\* points, the handlers, the timer (line 187), the listening socket.
ModuleRest ==
    /\ cityLoop.phase = "block"
    /\ cityLoop.gx \notin CityAxis
    /\ cityLoop' = [phase |-> "done"]
    /\ running' = TRUE
    /\ UNCHANGED <<conn, players, bodies, vehicles, worldBodies, worldVehicles,
                   nextObj, spawnIdx, allocLog, ev, buildings, bid, worldStatic>>

\* The start of the server and the connections that follow it.
NextCity ==
    \/ \E r \in CountDraws : CityBlock(r)
    \/ \E r \in CandidateDraws :
            /\ cityLoop.phase = "candidate"
            /\ Len(buildings) >= MaxPlaced => Skipped(Candidate(cityLoop.gx, cityLoop.gz, r))
            /\ CityCandidate(r)
    \/ ModuleRest
    \/ \E id \in Sockets, j \in Jitter :
            spawnIdx < MaxAlloc /\ IsNextSocket(id) /\ Connect(id, j[1], j[2])
    \/ \E id \in Sockets : Disconnect(id)

SpecCity == InitCity /\ [][NextCity]_vars

(***************************************************************************)
(* Properties                                                              *)
(***************************************************************************)
Open == {id \in Sockets : conn[id] = "open"}
Closed == {id \in Sockets : conn[id] = "closed"}

\* The `state` events among the events the last handler emitted.
StateEvents(e) == {i \in DOMAIN e.sent : e.sent[i].event = "state"}

\* C1: the chassis bodies in the world and the sessions of the registry
\* correspond one to one: every session's chassis is in the world, no two
\* sessions share a chassis, and every vehicle body in the world is the
\* chassis of a session.
C1_BodiesMatchSessions ==
    /\ \A id \in DOMAIN players : players[id].chassis \in worldBodies
    /\ \A id1, id2 \in DOMAIN players :
            players[id1].chassis = players[id2].chassis => id1 = id2
    /\ \A b \in worldBodies : \E id \in DOMAIN players : players[id].chassis = b
    /\ Cardinality(worldBodies) = Cardinality(DOMAIN players)

\* A session was just removed while another one lives on.
C1_Witness ==
    /\ ev.type = "disconnect"
    /\ ev.known
    /\ Cardinality(DOMAIN players) = 1
    /\ Cardinality(worldBodies) = 1

\* C2: a state snapshot broadcast after a socket's disconnect has no key
\* for it, and a disconnect of a socket that has no session any more throws
\* nothing and leaves the registry and the world as they are.
C2_DisconnectedStaysOut ==
    [][ /\ ev'.type = "tick" =>
              \A i \in StateEvents(ev') : DOMAIN ev'.sent[i].data \cap Closed' = {}
        /\ (ev'.type = "disconnect" /\ conn[ev'.id] = "closed") =>
              /\ ~ev'.threw
              /\ UNCHANGED <<running, players, bodies, vehicles,
                             worldBodies, worldVehicles>> ]_vars

\* A snapshot is broadcast for the remaining session after another socket
\* has disconnected.
C2_Witness ==
    /\ ev.type = "tick"
    /\ Closed # {}
    /\ \E i \in StateEvents(ev) : DOMAIN ev.sent[i].data # {}

\* What the specification asks of one axis of an input: the value sent,
\* limited to [-1, 1], when it is numeric (a number, or a value JavaScript
\* reads as one), and 0 otherwise.
IsNumeric(raw) == ~ToNumber(raw).nan

ExpectedAxis(raw) ==
    IF ~IsNumeric(raw) THEN 0
    ELSE IF ToNumber(raw).v > 10 THEN 10
    ELSE IF ToNumber(raw).v < -10 THEN -10
    ELSE ToNumber(raw).v

\* The property of a payload, undefined when the payload or the property
\* is missing.
FieldOf(data, field) ==
    IF field \in DOMAIN data THEN data[field] ELSE Undef

ValidInput(in) ==
    /\ in.forward \in -10..10
    /\ in.turn \in -10..10
    /\ in.brake \in BOOLEAN

\* C3: after every input event on a socket that has a session, the stored
\* forward and turn are the sent values limited to [-1, 1], or 0 for a
\* value that is not numeric or is missing, and brake is a boolean; and
\* every stored forward and turn is within [-1, 1] at all times.
C3_StoredInputIsClamped ==
    /\ (ev.type = "input" /\ ev.known) =>
            /\ players[ev.id].input.forward = ExpectedAxis(FieldOf(ev.data, "forward"))
            /\ players[ev.id].input.turn = ExpectedAxis(FieldOf(ev.data, "turn"))
            /\ players[ev.id].input.brake \in BOOLEAN
    /\ \A id \in DOMAIN players : ValidInput(players[id].input)

\* C4: with the jitter left out, pickSpawn goes round the 25 intersections:
\* any 25 allocations in a row, by connects and resets alike, are 25
\* different points, and the allocation 25 calls after another returns the
\* same point.
C4_RoundRobin ==
    \A k \in 1..Len(allocLog) :
        /\ k + Len(spawns) <= Len(allocLog) =>
                spawns[allocLog[k + Len(spawns)]] = spawns[allocLog[k]]
        /\ k + 24 <= Len(allocLog) =>
                Cardinality({spawns[allocLog[j]] : j \in k..(k + 24)}) = 25

\* The second socket connects after the allocator has wrapped around, the
\* allocations before it coming from the first socket's connect and resets.
C4_Witness ==
    /\ Len(allocLog) > Len(spawns) + 1
    /\ ev.type = "connect"
    /\ ev.id = SocketOrder[2]
    /\ Len(spawns) = 25

\* What a vehicle's wheels tell of the input they were set from: the rear
\* wheels push forward (a negative engine force), backward or not at all,
\* the front wheels steer to the side of turn, the brake is on or off.
ShowsInput(veh, in) ==
    /\ \A i \in {2, 3} : /\ (veh.engineForce[i] < 0) = (in.forward > 0)
                         /\ (veh.engineForce[i] > 0) = (in.forward < 0)
    /\ \A i \in {0, 1} : /\ (veh.steering[i] > 0) = (in.turn > 0)
                         /\ (veh.steering[i] < 0) = (in.turn < 0)
    /\ \A i \in Wheels : (veh.brake[i] > 0) = in.brake

\* What the specification asks an input event to store.
ExpectedInput(data) ==
    [forward |-> ExpectedAxis(FieldOf(data, "forward")),
     turn    |-> ExpectedAxis(FieldOf(data, "turn")),
     brake   |-> ToBoolean(FieldOf(data, "brake"))]

\* C5: a tick drives every session's vehicle with the input the session
\* holds when the tick runs, which is the last one received before it; an
\* input event replaces the stored input whatever it was (no queue) and
\* touches no wheel, so it is applied by the next tick and not before.
C5_LastInputApplied ==
    [][ /\ ev'.type = "tick" =>
              \A id \in DOMAIN players :
                    ShowsInput(vehicles'[players[id].vehicle], players[id].input)
        /\ ev'.type = "input" =>
              /\ vehicles' = vehicles
              /\ (ev'.id \in DOMAIN players /\ ~ev'.threw) =>
                    players'[ev'.id].input = ExpectedInput(ev'.data) ]_vars

\* A tick has applied an input that a session received: throttle, steering
\* and brake all differ from the input a session starts with.
C5_Witness ==
    /\ ev.type = "tick"
    /\ \E id \in DOMAIN players :
            /\ players[id].input.forward # 0
            /\ players[id].input.turn # 0
            /\ players[id].input.brake
            /\ ShowsInput(vehicles[players[id].vehicle], players[id].input)

\* -12 * (curUp x up) for the two orientations a chassis takes in the model,
\* in tenths: nothing when upright, 12 about x when the y axis points to z.
ExpectedTorque(q) == IF q = <<0, 0, 0, 10>> THEN <<0, 0, 0>> ELSE <<120, 0, 0>>

\* C6: every tick does, in this order and once each: the application of the
\* inputs and of the upright torque to every active session's vehicle, one
\* world step of 1/60 s, one state broadcast.
C6_TickOrder ==
    [][ ev'.type = "tick" =>
            /\ Len(ev'.trace) = 3
            /\ ev'.trace[1].op = "apply"
            /\ ev'.trace[1].ids = Open
            /\ ev'.trace[2].op = "step"
            /\ ev'.trace[2].dt = <<1, 60>>
            /\ ev'.trace[3].op = "emit"
            /\ Len(ev'.sent) = 1
            /\ Cardinality(StateEvents(ev')) = 1
            /\ \A id \in Open :
                  /\ ShowsInput(vehicles'[players[id].vehicle], players[id].input)
                  /\ ev'.trace[2].torque[players[id].chassis]
                        = ExpectedTorque(bodies[players[id].chassis].quaternion) ]_vars

\* A tick has stepped the world with a torque on a tilted chassis.
C6_Witness ==
    /\ ev.type = "tick"
    /\ Len(ev.trace) = 3
    /\ \E b \in DOMAIN ev.trace[2].torque : ev.trace[2].torque[b] # Zero3

\* C7: a tick emits one `state` event, to everyone, whose keys are the ids
\* of the sessions active at that moment, all of them and no other; no
\* other handler emits a `state` event.
C7_SnapshotKeys ==
    /\ ev.type = "tick" =>
            /\ Len(ev.sent) = 1
            /\ ev.sent[1].event = "state"
            /\ ev.sent[1].to = "all"
            /\ DOMAIN ev.sent[1].data = Open
            /\ DOMAIN ev.sent[1].data = DOMAIN players
    /\ ev.type # "tick" => StateEvents(ev) = {}

\* A snapshot with two entries.
C7_Witness ==
    /\ ev.type = "tick"
    /\ Len(ev.sent) = 1
    /\ Cardinality(DOMAIN ev.sent[1].data) = 2

Abs(n) == IF n < 0 THEN -n ELSE n

\* C8: a reset on a socket that has a session leaves its chassis with
\* linear and angular velocity zero, the identity orientation, and at
\* height 1.8 within the jitter of the spawn point this reset has taken
\* from the allocator.
C8_ResetRecovers ==
    [][ (ev'.type = "reset" /\ ev'.id \in DOMAIN players) =>
            LET c == bodies'[players[ev'.id].chassis]
                pt == spawns[allocLog'[Len(allocLog')]]
            IN  /\ Len(allocLog') = Len(allocLog) + 1
                /\ c.velocity = <<0, 0, 0>>
                /\ c.angularVelocity = <<0, 0, 0>>
                /\ c.quaternion = <<0, 0, 0, 10>>
                /\ c.position[2] = 18
                /\ Abs(c.position[1] - pt[1]) <= 10
                /\ Abs(c.position[3] - pt[2]) <= 10 ]_vars

\* A reset has found the chassis moving, turning and tilted.
C8_Witness ==
    /\ ev.type = "reset"
    /\ ev.known
    /\ ev.pre.velocity # Zero3
    /\ ev.pre.angularVelocity # Zero3
    /\ ev.pre.quaternion # IdentityQ
    /\ bodies[players[ev.id].chassis].velocity = Zero3

\* C9: an input, reset or disconnect event for a socket without a session
\* throws nothing and changes neither the registry, nor any vehicle, nor the
\* bodies in the world, nor the spawn counter.
C9_UnknownIsNoOp ==
    [][ (ev'.type \in {"input", "reset", "disconnect"} /\ ev'.id \notin DOMAIN players) =>
            /\ ~ev'.threw
            /\ UNCHANGED <<running, players, bodies, vehicles, worldBodies,
                           worldVehicles, spawnIdx, allocLog>> ]_vars

\* An input event without a payload reaches a socket whose session is gone
\* while another session is active.
C9_Witness ==
    /\ ev.type = "input"
    /\ ~ev.known
    /\ ev.data.t = "undefined"
    /\ DOMAIN players # {}
    /\ running

\* C10: an input event on a socket that has a session, however malformed,
\* is handled: nothing is thrown, the server goes on, the stored input is
\* valid and nothing is sent.
C10_MalformedInputHandled ==
    (ev.type = "input" /\ ev.known) =>
        /\ ~ev.threw
        /\ running
        /\ ValidInput(players[ev.id].input)
        /\ ev.sent = <<>>


\* C11: when the construction of the vehicle fails during a connect, the
\* failure stays with that connection: it has no session, no body of the
\* failed vehicle is in the world (every body there is the chassis of a
\* session), nothing is sent to it, and the process and its timer live on.
C11_FailureConfined ==
    (ev.type = "connect" /\ ev.threw) =>
        /\ ev.id \notin DOMAIN players
        /\ \A b \in worldBodies : \E id \in DOMAIN players : players[id].chassis = b
        /\ ev.sent = <<>>
        /\ running


\* C12: a tick is atomic with respect to the session events: between its
\* application of the inputs and its broadcast no connect, input, reset or
\* disconnect takes effect (sessions, stored inputs, sockets, bodies in the
\* world and spawn counter are after the tick what they were before it),
\* its three parts are not interleaved with those of another tick, and the
\* sessions the inputs were applied to, the bodies the world stepped and
\* the sessions in the snapshot are the same ones.
C12_TickAtomic ==
    [][ ev'.type = "tick" =>
            /\ UNCHANGED <<players, conn, worldBodies, worldVehicles, spawnIdx, allocLog>>
            /\ <<ev'.trace[1].op, ev'.trace[2].op, ev'.trace[3].op>>
                    = <<"apply", "step", "emit">>
            /\ ev'.trace[1].ids = DOMAIN players'
            /\ DOMAIN ev'.trace[2].torque = worldBodies'
            /\ DOMAIN ev'.trace[2].torque
                    = {players'[id].chassis : id \in ev'.trace[1].ids}
            /\ \A i \in StateEvents(ev') : DOMAIN ev'.sent[i].data = ev'.trace[1].ids ]_vars

\* A tick has run over two sessions, one of them moving.
C12_Witness ==
    /\ ev.type = "tick"
    /\ Len(ev.trace) = 3
    /\ Cardinality(ev.trace[1].ids) = 2
    /\ Cardinality(DOMAIN ev.trace[2].torque) = 2
    /\ \E b \in worldBodies : bodies[b].velocity # Zero3


\* C13: two clients that connect one directly after the other, in either
\* order, get spawn points that are, before the jitter, two different
\* intersections, at least the grid spacing of 36 apart on one axis.  The
\* same is stated of any two allocations in a row, whoever made them, which
\* covers the two connects.
C13_ConsecutiveSpawnsApart ==
    \A k \in 1..(Len(allocLog) - 1) :
        LET a == spawns[allocLog[k]]
            b == spawns[allocLog[k + 1]]
        IN  /\ a # b
            /\ \/ Abs(a[1] - b[1]) >= 360
               \/ Abs(a[2] - b[2]) >= 360

\* The second socket has connected directly after the first: the only two
\* allocations are the two connects.
C13_Witness ==
    /\ ev.type = "connect"
    /\ ev.id = SocketOrder[2]
    /\ Len(allocLog) = 2
    /\ DOMAIN players = Sockets


\* The worldInit events among the events the last handler emitted.
WorldInits(e) == {i \in DOMAIN e.sent : e.sent[i].event = "worldInit"}

\* C14: a successful connect sends one worldInit, to the connecting client
\* and to no other, carrying that client's id, and the session is
\* registered when the handler is done; it comes before any snapshot with
\* that id (a snapshot has only ids whose session existed before the tick,
\* and a session comes to exist only by its connect); no other event
\* (input, reset, disconnect, tick) sends a worldInit.
C14_WorldInitOnce ==
    [][ /\ (ev'.type = "connect" /\ ~ev'.threw) =>
              /\ Len(ev'.sent) = 1
              /\ ev'.sent[1].event = "worldInit"
              /\ ev'.sent[1].to = ev'.id
              /\ ev'.sent[1].data.id = ev'.id
              /\ ev'.id \notin DOMAIN players
              /\ ev'.id \in DOMAIN players'
        /\ ev'.type # "connect" => WorldInits(ev') = {}
        /\ \A i \in StateEvents(ev') : DOMAIN ev'.sent[i].data \subseteq DOMAIN players
        /\ \A id \in DOMAIN players' \ DOMAIN players :
              ev'.type = "connect" /\ ev'.id = id /\ WorldInits(ev') # {} ]_vars

\* The second client has connected while the first has a session: the
\* worldInit went to the second.
C14_Witness ==
    /\ ev.type = "connect"
    /\ ev.id = SocketOrder[2]
    /\ SocketOrder[1] \in DOMAIN players
    /\ WorldInits(ev) = {1}
    /\ ev.sent[1].to = SocketOrder[2]


\* C15: whatever the city loop has drawn, every worldInit carries
\* grid.spacing 36, grid.roadHalf 7 and a building list that is not empty,
\* and the list is the same for every client (the server's one list).
C15_WorldInitPayload ==
    \A i \in WorldInits(ev) :
        /\ ev.sent[i].data.grid.spacing = 36
        /\ ev.sent[i].data.grid.roadHalf = 7
        /\ ev.sent[i].data.buildings # <<>>
        /\ ev.sent[i].data.buildings = buildings


\* C16: after a tick, for every session with stored input (forward, turn,
\* brake): the engine force on the rear wheels 2 and 3 is -7200 * forward
\* when forward > 0, 3000 * |forward| when forward < 0 and 0 when forward
\* is 0; it is 0 on the front wheels 0 and 1; the steering of both front
\* wheels is turn * 0.5; the brake of all four wheels is 20 when brake is
\* set and 0 when not, whatever the engine force; nothing set by an
\* earlier tick is left.  (Inputs in tenths: forces in tenths, steering in
\* hundredths.)
C16_WheelForces ==
    ev.type = "tick" =>
        \A id \in DOMAIN players :
            LET in == players[id].input
                veh == vehicles[players[id].vehicle]
                drive == IF in.forward > 0 THEN (-7200) * in.forward
                         ELSE IF in.forward < 0 THEN 3000 * Abs(in.forward)
                         ELSE 0
            IN  /\ veh.engineForce[2] = drive
                /\ veh.engineForce[3] = drive
                /\ veh.engineForce[0] = 0
                /\ veh.engineForce[1] = 0
                /\ veh.steering[0] = in.turn * 5
                /\ veh.steering[1] = in.turn * 5
                /\ \A i \in Wheels : veh.brake[i] = IF in.brake THEN 20 ELSE 0

\* A tick has driven a vehicle backwards, steering, with the brake on: the
\* reverse force and the brake stand together.
C16_Witness ==
    /\ ev.type = "tick"
    /\ \E id \in DOMAIN players :
            /\ players[id].input.forward = -5
            /\ players[id].input.turn = -10
            /\ players[id].input.brake
            /\ vehicles[players[id].vehicle].engineForce[3] = 15000
            /\ vehicles[players[id].vehicle].steering[0] = -50
            /\ vehicles[players[id].vehicle].brake[0] = 20


\* C17: the scheduler is Running from the start of the server on and in
\* every state after it: no sequence of connect, input, reset and
\* disconnect events, malformed ones included, stops the tick timer (so
\* that another tick can always follow).
C17_AlwaysRunning ==
    /\ running
    /\ ENABLED (\E outcome \in [worldBodies -> Motions] : Tick(outcome))


\* The coordinate of the block centre a building belongs to: the grid line
\* nearest to it (a centre is drawn less than 10.8 from its block centre).
BlockCentre(p) == CHOOSE c \in {g * 360 : g \in -3..3} : Abs(p - c) <= 108

\* C18: every building placed has a footprint, its centre plus or minus
\* half its width on x and half its depth on z, that stays at least 7 away
\* from both grid axes through its block centre: no candidate whose
\* footprint comes nearer is placed.
C18_FootprintClear ==
    \A i \in DOMAIN buildings :
        LET b == buildings[i]
        IN  /\ 2 * Abs(b.x - BlockCentre(b.x)) - b.w >= 2 * 70
            /\ 2 * Abs(b.z - BlockCentre(b.z)) - b.d >= 2 * 70


\* C19: an input event on a connection changes at most that connection's
\* stored input: the records of the other sessions with their inputs, the
\* vehicle and chassis its own record refers to, every chassis and every
\* wheel, the set of sessions, the bodies in the world and the spawn
\* counter are what they were, so that the input another session's vehicle
\* is driven with is never one this connection sent.
C19_InputTouchesOwnInputOnly ==
    [][ ev'.type = "input" =>
            /\ DOMAIN players' = DOMAIN players
            /\ \A id \in DOMAIN players \ {ev'.id} : players'[id] = players[id]
            /\ ev'.id \in DOMAIN players =>
                  /\ players'[ev'.id].vehicle = players[ev'.id].vehicle
                  /\ players'[ev'.id].chassis = players[ev'.id].chassis
            /\ UNCHANGED <<bodies, vehicles, worldBodies, worldVehicles,
                           spawnIdx, allocLog>> ]_vars

\* A session has stored a new input while the other session holds a
\* different one, received earlier.
C19_Witness ==
    /\ ev.type = "input"
    /\ ev.known
    /\ ~ev.threw
    /\ players[ev.id].input = [forward |-> 10, turn |-> 0, brake |-> FALSE]
    /\ \E other \in DOMAIN players \ {ev.id} :
            players[other].input = [forward |-> -5, turn |-> -10, brake |-> TRUE]


\* C20: a reset on a socket that has a session advances the spawn counter
\* by exactly one and leaves the session's stored input, the set of
\* sessions, the bodies in the world and the vehicle of every other session
\* (its chassis and its wheels) as they were; the tick that follows the
\* reset applies the throttle, steering and brake held before it to the
\* vehicle.
C20_ResetKeepsInput ==
    [][ /\ (ev'.type = "reset" /\ ev'.id \in DOMAIN players) =>
              /\ spawnIdx' = spawnIdx + 1
              /\ players' = players
              /\ worldBodies' = worldBodies
              /\ worldVehicles' = worldVehicles
              /\ vehicles' = vehicles
              /\ \A id \in DOMAIN players \ {ev'.id} :
                    bodies'[players[id].chassis] = bodies[players[id].chassis]
        /\ (ev'.type = "tick" /\ ev.type = "reset" /\ ev.known) =>
              LET in == players[ev.id].input
                  veh == vehicles'[players[ev.id].vehicle]
              IN  /\ players'[ev.id].input = in
                  /\ veh.engineForce[2] = IF in.forward > 0 THEN (-7200) * in.forward
                                          ELSE 3000 * Abs(in.forward)
                  /\ veh.steering[0] = in.turn * 5
                  /\ veh.brake[0] = IF in.brake THEN 20 ELSE 0 ]_vars

\* The only session has reset while it held the throttle, and the next tick
\* has left its chassis at rest at the new spawn point, still driven: the
\* second allocation is the reset's, the other socket never connected.
C20_Witness ==
    /\ ev.type = "tick"
    /\ conn[SocketOrder[2]] = "new"
    /\ Len(allocLog) = 2
    /\ \E id \in DOMAIN players :
            /\ players[id].input.forward = 10
            /\ Abs(bodies[players[id].chassis].position[1] - spawns[allocLog[2]][1]) <= 10
            /\ Abs(bodies[players[id].chassis].position[3] - spawns[allocLog[2]][2]) <= 10
            /\ vehicles[players[id].vehicle].engineForce[2] = -72000

=============================================================================
